---- MODULE Spec2Model ----
(***************************************************************************)
(* Stackful coroutines of rusterators: one coroutine, its invoker-side      *)
(* handle (Coroutine / InvocationChannel) and its routine side              *)
(* (run_co_context / CoroutineChannel), over the ExchangingTransfer layer.  *)
(* Exchange slots live in a small address space `mem`; a stack switch       *)
(* carries one word.  Each action is the code one side runs between two     *)
(* stack switches.                                                          *)
(***************************************************************************)
EXTENDS Integers, Sequences, FiniteSets, TLC

\* ---------------------------------------------------------------- bounds
MaxResumes == 3
NumVals == 2
MaxDepth == 2
NumHandleAddrs == 2
MaxYields == 3
MaxInner == 2
MaxSwitches == 4
MaxCell == 9

\* ------------------------------------------------------- program constants
\* the word a disposing side passes: "no further receive"
NullWord == 0
\* Option::None of send_ref
None == 0
\* addresses of the exchange slots
ABoot == 1
R0 == 2
R1 == 3
HandleBase == 3
\* panic sites of the library (payloads of library panics)
ControlPanic == 100
ForgetNonEmpty == 101
NoContent == 102
InvalidExchange == 103
WriteNonEmpty == 104
CompletedContext == 105
DroppedOutside == 106
InvalidUnwind == 107
InvalidGenerator == 108
NotCompleted == 109
UnwrapErr == 110
ResumedAfterDispose == 111
UnwrapNone == 112
\* the unit value () a generator without input is resumed with
UnitVal == 0
\* examples/plain_coroutine.rs
CounterTarget == 10
CounterFirst == 5
CounterResumes == 6
Less == -1
Equal == 0
Greater == 1

Vals == 1..NumVals
HandleAddrs == (HandleBase + 1)..(HandleBase + NumHandleAddrs)
Addrs == {ABoot, R0, R1} \cup HandleAddrs

VARIABLES
  prog,     \* which user function and driver run: "free" (any), "counter",
            \* a generator program (GenProgs) or "transfer" (the layer on its own)
  co,       \* the Coroutine handle and the invoker's ExchangingTransfer
  rt,       \* the routine: run_co_context, CoroutineChannel and the user function
  mem,      \* the exchange slots, by address
  active,   \* the side that is executing
  word,     \* the word carried by the last stack switch
  nsw,      \* number of stack switches so far (names the context handles)
  crashed,  \* the process was terminated by a panic that cannot unwind
  h,        \* history of the calls, for stating the properties
  gen,      \* the BoostedGenerator around the handle (prog = "gen")
  cell      \* a SelfUpdating cell used on its own (prog = "cell")

vars == <<prog, co, rt, mem, active, word, nsw, crashed, h, gen, cell>>

\* ---------------------------------------------------------------- messages
Msg(t, v) == [t |-> t, v |-> v]
NoMsg == Msg("None", 0)
ClosureMsg == Msg("Closure", 0)
\* ResumeType
RYieldStale(v) == Msg("RYield", co.arg)
RYield(v) == Msg("RYield", v)
RDrop == Msg("RDrop", 0)
\* SuspenseType; Complete(Return r), Complete(Unwind(Panic p)), Complete(Unwind(Drop))
SYield(y) == Msg("Yield", y)
CReturn(r) == Msg("Return", r)
CPanic(p) == Msg("Panic", p)
CDrop == Msg("Drop", 0)
IsComplete(m) == m.t \in {"Return", "Panic", "Drop"}
IsUnwind(m) == m.t \in {"Panic", "Drop"}

\* ------------------------------------------------- ValueExchangeContainer
Empty == [k |-> "Empty", m |-> NoMsg]
\* (altered) the container is made Full but the value is not moved into it
PrepareExchangeDefault(val) == [k |-> "Value", m |-> NoMsg]
prepare_exchange(val) == [k |-> "Value", m |-> val]
has_content(c) == c.k = "Value"
\* what a reused storage location looks like when its discriminant is read
Junk == [k |-> "Value", m |-> Msg("Junk", 0)]
\* (altered) the address of a temporary copy is encoded instead of the container's
MakePointerOfCopy(a) == ABoot
make_pointer(a) == a
of_pointer(p) == mem[p]

\* (altered) send_value writes whatever the target holds
SendValueOverwrites(ref) == FALSE
\* send_value: the target must be Empty
send_value_panics(ref) == has_content(of_pointer(ref))
\* (altered) send does not look for a missing send_ref
SendIgnoresMissingRef(tx) == tx # None /\ send_value_panics(tx)
\* ExchangingTransfer::send
send_panics(tx) == tx = None \/ send_value_panics(tx)
send_panic(tx) == IF tx = None THEN InvalidExchange ELSE WriteNonEmpty
\* (altered) send_value checks the target but does not write the value
MemSentLost(tx, val) == mem
MemSent(tx, val) == [mem EXCEPT ![tx] = prepare_exchange(val)]
\* the value waiting in the receive_container at address a, if any
Slot(a) == IF has_content(mem[a]) THEN <<mem[a].m>> ELSE <<>>

\* ExchangingTransfer::suspend after the switch has returned
\* receive_ref reads the slot the reference held so far
receive_ref_panics(tx) == has_content(of_pointer(tx))
RebindPanics(tx, data) == data # NullWord /\ tx # None /\ receive_ref_panics(tx)
\* (altered) an existing send_ref is kept instead of being rebound to the new word
ReboundOnlyOnce(tx, data) == IF data = NullWord THEN None ELSE IF tx = None THEN data ELSE tx
Rebound(tx, data) == IF data # NullWord THEN data ELSE None
\* (altered) receive_content hands out the default of an Empty container
ReceiveContentNeverPanics(a) == FALSE
receive_content_panics(a) == ~has_content(mem[a])
\* (altered) the context handle returned by the switch is not stored
CtxNotUpdated(data) == [id |-> 0, data |-> data]
Ctx(data) == [id |-> nsw, data |-> data]

\* (altered) context.resume passes the word but control stays where it is
SwitchStays(to, w) ==
  /\ active' = active
  /\ word' = w
  /\ nsw' = nsw + 1
\* the raw stack switch
Switch(to, w) ==
  /\ active' = to
  /\ word' = w
  /\ nsw' = nsw + 1
NoSwitch == UNCHANGED <<active, word, nsw>>

\* ------------------------------------------------------------- outcomes
Outcome(k, v) == [k |-> k, v |-> v]
NoOutcome == Outcome("None", 0)
\* history: the first panic raised inside the transfer layer
Failed(hh, code) == [hh EXCEPT !.fail = IF @ = 0 THEN code ELSE @]

\* history of the exchange: the values sent and not yet received, per direction
\* (I: by the invoker, R: by the routine), whether every receive so far took the
\* oldest of them, and the numbers of sends and receives
SentI(hh, m) == [hh EXCEPT !.pendI = Append(@, m), !.nSentI = @ + 1]
SentR(hh, m) == [hh EXCEPT !.pendR = Append(@, m), !.nSentR = @ + 1]
GotR(hh, m) ==
  [hh EXCEPT !.inOrder = @ /\ hh.pendI # <<>> /\ Head(hh.pendI) = m,
             !.pendI = IF @ = <<>> THEN @ ELSE Tail(@), !.nGotR = @ + 1]
GotI(hh, m) ==
  [hh EXCEPT !.inOrder = @ /\ hh.pendR # <<>> /\ Head(hh.pendR) = m,
             !.pendR = IF @ = <<>> THEN @ ELSE Tail(@), !.nGotI = @ + 1]

\* ------------------------------------------------------------------ Init
\* the generator a generator function passes to yield_from: none before the call
NoInner ==
  [state |-> "none", ret |-> 0, pc |-> "idle", items |-> <<>>, last |-> NoOutcome,
   co |-> "NoHandle", base |-> 0, reply |-> NoMsg]
InitCo ==
  [state |-> "NoHandle", stack |-> "none", pc |-> "idle", addr |-> HandleBase + 1,
   tx |-> None, ctx |-> [id |-> 0, data |-> NullWord], last |-> NoOutcome, arg |-> 0]
InitRt ==
  [pc |-> "unstarted", addr |-> R0, tx |-> None, ctx |-> [id |-> 0, data |-> NullWord],
   flag |-> FALSE, frames |-> <<>>, result |-> NoOutcome, closure |-> "factory",
   recv |-> 0, counter |-> 0, wrap |-> "fn", inner |-> NoInner]
\* history: the last operation of the transfer layer that was called on its own,
\* with the container, the transfer and the switch count it found
NoOp ==
  [name |-> "none", a |-> 0, v |-> 0, via |-> "direct", pre |-> Empty, tx |-> None,
   ctx |-> [id |-> 0, data |-> NullWord], rx |-> Empty, nsw |-> 0]
Op(name, a, v) ==
  [name |-> name, a |-> a, v |-> v, via |-> "direct",
   pre |-> IF a \in Addrs THEN mem[a] ELSE Empty,
   tx |-> co.tx, ctx |-> co.ctx, rx |-> mem[co.addr], nsw |-> nsw]
InitH ==
  [nResume |-> 0, nRecv |-> 0, nYield |-> 0, lastYield |-> 0, started |-> FALSE,
   intercepted |-> FALSE, nDispose |-> 0, dropDepth |-> -1, fail |-> 0,
   disposed |-> NoMsg, resumed |-> NoOutcome, dropReply |-> NoMsg,
   pendI |-> <<>>, pendR |-> <<>>, inOrder |-> TRUE,
   nSentI |-> 0, nGotR |-> 0, nSentR |-> 0, nGotI |-> 0, ys |-> <<>>,
   fnret |-> NoOutcome, op |-> NoOp]

\* BoostedGeneratorState before new_receiving has returned; the items and the
\* result of the last resume are kept for stating the properties
\* SelfUpdating<T>(Option<T>) with the last call made on it and how it ended;
\* moved: the cell was consumed by unwrap(self)
NoCell == [opt |-> <<>>, moved |-> TRUE, op |-> "none", pre |-> <<>>, last |-> NoOutcome]
InitGen == [state |-> "none", ret |-> 0, pc |-> "idle", items |-> <<>>, last |-> NoOutcome]

Init ==
  /\ cell = NoCell
  /\ prog \in {"free", "counter"}
  /\ co = InitCo
  /\ rt = InitRt
  /\ mem = [a \in Addrs |-> Empty]
  /\ active = "invoker"
  /\ word = NullWord
  /\ nsw = 0
  /\ crashed = FALSE
  /\ h = InitH
  /\ gen = InitGen

\* ----------------------------------------------------- CoroutineFactory
\* build, up to its switch into the new context
Build ==
  /\ ~crashed /\ active = "invoker" /\ co.pc = "idle" /\ co.state = "NoHandle"
  /\ co' = [co EXCEPT !.stack = "owned", !.pc = "build"]
  /\ mem' = [mem EXCEPT ![ABoot] = prepare_exchange(ClosureMsg)]
  /\ rt' = [rt EXCEPT !.pc = "entry", !.closure = "bootslot"]
  /\ Switch("routine", make_pointer(ABoot))
  /\ UNCHANGED <<cell, prog, gen, crashed, h>>

\* (altered) the bootstrap calls the user function without the initial suspend()
RoutineBootEager ==
  /\ ~crashed /\ active = "routine" /\ rt.pc = "entry"
  /\ mem' = [mem EXCEPT ![word] = Empty]
  /\ rt' = [rt EXCEPT !.pc = "user", !.ctx = Ctx(word), !.closure = "routine"]
  /\ h' = [h EXCEPT !.started = TRUE]
  /\ NoSwitch
  /\ UNCHANGED <<cell, prog, gen, co, crashed>>

\* run_co_context: create_receiving and the initial suspend()
RoutineBoot ==
  /\ ~crashed /\ active = "routine" /\ rt.pc = "entry"
  /\ IF receive_content_panics(word)
       THEN /\ crashed' = TRUE
            /\ h' = Failed(h, NoContent)
            /\ UNCHANGED <<rt, mem>>
            /\ NoSwitch
       ELSE /\ mem' = [mem EXCEPT ![word] = Empty, ![R0] = Empty]
            /\ UNCHANGED h
            /\ rt' = [rt EXCEPT !.pc = "boot_suspended", !.addr = R0, !.tx = None,
                                !.ctx = Ctx(word), !.closure = "routine"]
            /\ Switch("invoker", make_pointer(R0))
            /\ UNCHANGED crashed
  /\ UNCHANGED <<cell, prog, gen, co>>

\* build, after the switch returned: create_with_send
create_with_send(data) == data
CoBuildFinish ==
  /\ ~crashed /\ active = "invoker" /\ co.pc = "build"
  /\ co' = [co EXCEPT !.state = "Running", !.pc = "idle", !.tx = create_with_send(word),
                      !.ctx = Ctx(word)]
  /\ mem' = [mem EXCEPT ![co.addr] = Empty]
  /\ NoSwitch
  /\ UNCHANGED <<cell, prog, rt, crashed, h>>
BuildFinish == CoBuildFinish /\ UNCHANGED gen

\* ------------------------------------------------------ the user function
\* the raise is caught by the innermost catch_unwind frame of the user function
\* (0: by none, it reaches the guard of run_co_context)
TopCatch(fr) ==
  IF \E i \in DOMAIN fr : fr[i] = "catch"
    THEN CHOOSE i \in DOMAIN fr :
           fr[i] = "catch" /\ \A j \in DOMAIN fr : j > i => fr[j] # "catch"
    ELSE 0
Unwound(fr) == SubSeq(fr, 1, TopCatch(fr) - 1)
\* the routine after a raise with payload p inside the user function; a Running
\* inner generator owned by the function is dropped while the raise unwinds
AfterRaise(r, p) ==
  IF TopCatch(r.frames) = 0
    THEN [r EXCEPT !.pc = IF r.inner.co = "Running" THEN "unwinding" ELSE "guard",
                   !.frames = <<>>, !.result = Outcome("Err", p)]
    ELSE [r EXCEPT !.pc = "user", !.frames = Unwound(r.frames)]
\* history: the frames that were live when the handle was dropped and still are
Kept(hh, fr) == [hh EXCEPT !.dropDepth = IF @ > Len(fr) THEN Len(fr) ELSE @]
Caught(hh, r, p) ==
  [hh EXCEPT !.intercepted = @ \/ (p = ControlPanic /\ TopCatch(r.frames) # 0)]

\* the generator programs: BoostedGenerator::new, BoringGenerator::new,
\* BoringGenerator::new_with_return, and a BoostedGenerator calling yield_from
GenProgs == {"gen", "boring", "mono", "yf"}
Cmp(a, b) == IF a < b THEN Less ELSE IF a = b THEN Equal ELSE Greater
YieldChoices ==
  IF prog = "counter"
    THEN (IF rt.recv # CounterTarget THEN {Cmp(rt.recv, CounterTarget)} ELSE {})
  ELSE IF prog \in GenProgs
    THEN (IF h.nYield < MaxYields /\ rt.wrap = "fn" /\ rt.inner.state = "none"
            THEN Vals ELSE {})
    ELSE Vals
ReturnChoices ==
  IF prog = "counter"
    THEN (IF rt.recv = CounterTarget THEN {rt.counter} ELSE {})
  ELSE IF prog = "boring"
    THEN {UnitVal}
  ELSE IF prog = "mono"
    THEN (IF rt.wrap = "after" THEN {UnitVal} ELSE {})
  ELSE IF prog = "yf"
    THEN {}
    ELSE Vals
UserRuns == ~crashed /\ active = "routine" /\ rt.pc = "user"

\* a local with a destructor comes into scope / a catch_unwind region is entered
UserPush ==
  /\ UserRuns /\ prog = "free" /\ Len(rt.frames) < MaxDepth
  /\ \E f \in {"res", "catch"} : rt' = [rt EXCEPT !.frames = Append(@, f)]
  /\ NoSwitch
  /\ UNCHANGED <<cell, prog, gen, co, mem, crashed, h>>

\* the innermost scope ends normally
UserPop ==
  /\ UserRuns /\ prog = "free" /\ rt.frames # <<>>
  /\ rt' = [rt EXCEPT !.frames = SubSeq(@, 1, Len(@) - 1)]
  /\ h' = Kept(h, rt'.frames)
  /\ NoSwitch
  /\ UNCHANGED <<cell, prog, gen, co, mem, crashed>>

\* CoroutineChannel::suspend, up to the switch of yield_with
UserYield ==
  /\ UserRuns
  /\ \E y \in YieldChoices :
       IF send_panics(rt.tx)
         THEN /\ rt' = AfterRaise(rt, send_panic(rt.tx))
              /\ h' = Failed(Kept(h, rt'.frames), send_panic(rt.tx))
              /\ NoSwitch
              /\ UNCHANGED mem
         ELSE /\ mem' = MemSent(rt.tx, SYield(y))
              /\ rt' = [rt EXCEPT !.pc = "suspended",
                                  !.counter = IF prog = "counter" THEN @ + 1 ELSE @]
              /\ h' = SentR([h EXCEPT !.nYield = @ + 1, !.lastYield = y,
                                      !.ys = IF prog \in GenProgs THEN Append(@, y) ELSE @],
                            SYield(y))
              /\ Switch("invoker", make_pointer(rt.addr))
  /\ UNCHANGED <<cell, prog, gen, co, crashed>>

\* the user function returns
UserReturn ==
  /\ UserRuns
  /\ \E r \in ReturnChoices :
       rt' = [rt EXCEPT !.pc = "guard", !.frames = <<>>, !.result = Outcome("Ok", r)]
  /\ h' = Kept(h, rt'.frames)
  /\ NoSwitch
  /\ UNCHANGED <<cell, prog, gen, co, mem, crashed>>

\* the user function panics
UserPanic ==
  /\ UserRuns /\ prog \in {"free", "gen", "boring", "mono"} /\ rt.wrap = "fn"
  /\ \E p \in Vals : rt' = AfterRaise(rt, p)
  /\ h' = Kept(h, rt'.frames)
  /\ NoSwitch
  /\ UNCHANGED <<cell, prog, gen, co, mem, crashed>>

\* ------------------------------------------- run_co_context, CoroutineChannel
\* (altered) the bootstrap calls the user function before it looks at the
\* initial message
RoutineStartCallsFunction ==
  /\ ~crashed /\ active = "routine" /\ rt.pc = "boot_suspended"
  /\ IF RebindPanics(rt.tx, word) \/ receive_content_panics(rt.addr)
       THEN /\ crashed' = TRUE
            /\ h' = Failed(h, IF RebindPanics(rt.tx, word) THEN ForgetNonEmpty
                                                          ELSE NoContent)
            /\ UNCHANGED <<rt, mem>>
       ELSE /\ \E a \in {R0, R1} :
                 LET msg == mem[rt.addr].m
                     moved == [rt EXCEPT !.addr = a, !.tx = Rebound(rt.tx, word),
                                         !.ctx = Ctx(word), !.flag = msg.t = "RDrop"]
                 IN /\ mem' = [mem EXCEPT ![rt.addr] = Empty, ![a] = Empty]
                    /\ rt' = [moved EXCEPT !.pc = "user", !.recv = msg.v]
                    /\ h' = GotR([h EXCEPT !.started = TRUE, !.nRecv = @ + 1], msg)
            /\ UNCHANGED crashed
  /\ NoSwitch
  /\ UNCHANGED <<cell, prog, gen, co>>

\* run_co_context once the initial suspend() is resumed: the transfer is moved
\* into the CoroutineChannel, channel.receive(initial) runs inside the guard
RoutineStart ==
  /\ ~crashed /\ active = "routine" /\ rt.pc = "boot_suspended"
  /\ IF RebindPanics(rt.tx, word) \/ receive_content_panics(rt.addr)
       THEN /\ crashed' = TRUE
            /\ h' = Failed(h, IF RebindPanics(rt.tx, word) THEN ForgetNonEmpty
                                                          ELSE NoContent)
            /\ UNCHANGED <<rt, mem>>
       ELSE /\ \E a \in {R0, R1} :
                 LET msg == mem[rt.addr].m
                     moved == [rt EXCEPT !.addr = a, !.tx = Rebound(rt.tx, word),
                                         !.ctx = Ctx(word), !.flag = msg.t = "RDrop"]
                 IN /\ mem' = [mem EXCEPT ![rt.addr] = Empty, ![a] = Empty]
                    /\ IF msg.t = "RDrop"
                         THEN /\ rt' = AfterRaise(moved, ControlPanic)
                              /\ h' = Kept(GotR(h, msg), <<>>)
                         ELSE /\ rt' = [moved EXCEPT !.pc = "user", !.recv = msg.v]
                              /\ h' = GotR([h EXCEPT !.started = TRUE, !.nRecv = @ + 1], msg)
            /\ UNCHANGED crashed
  /\ NoSwitch
  /\ UNCHANGED <<cell, prog, gen, co>>

\* (altered) suspend returns to the user function without receive_content
RoutineWakeNoReceive ==
  /\ ~crashed /\ active = "routine" /\ rt.pc = "suspended"
  /\ rt' = [rt EXCEPT !.pc = "user", !.tx = Rebound(rt.tx, word), !.ctx = Ctx(word)]
  /\ NoSwitch
  /\ UNCHANGED <<cell, prog, gen, co, mem, crashed, h>>

\* CoroutineChannel::suspend once yield_with is resumed, and CoroutineChannel::receive
RoutineWake ==
  /\ ~crashed /\ active = "routine" /\ rt.pc = "suspended"
  /\ IF RebindPanics(rt.tx, word)
       THEN /\ rt' = AfterRaise([rt EXCEPT !.tx = None, !.ctx = Ctx(word)], ForgetNonEmpty)
            /\ h' = Failed(Kept(h, rt'.frames), ForgetNonEmpty)
            /\ UNCHANGED mem
     ELSE IF receive_content_panics(rt.addr)
       THEN /\ rt' = AfterRaise([rt EXCEPT !.tx = Rebound(rt.tx, word),
                                           !.ctx = Ctx(word)], NoContent)
            /\ h' = Failed(Kept(h, rt'.frames), NoContent)
            /\ UNCHANGED mem
     ELSE LET msg == mem[rt.addr].m
              woken == [rt EXCEPT !.tx = Rebound(rt.tx, word), !.ctx = Ctx(word),
                                  !.flag = @ \/ msg.t = "RDrop"]
          IN /\ mem' = [mem EXCEPT ![rt.addr] = Empty]
             /\ IF msg.t = "RDrop"
                  THEN /\ rt' = AfterRaise(woken, ControlPanic)
                       /\ h' = Kept(Caught(GotR(h, msg), woken, ControlPanic), rt'.frames)
                  ELSE /\ rt' = [woken EXCEPT !.pc = "user", !.recv = msg.v]
                       /\ h' = GotR([h EXCEPT !.nRecv = @ + 1], msg)
  /\ NoSwitch
  /\ UNCHANGED <<cell, prog, gen, co, crashed>>

\* (altered) the guard's test of the drop flag is inverted
FinalMessageInverted(result, flag) ==
  IF result.k = "Ok" THEN CReturn(result.v)
  ELSE IF flag THEN CPanic(result.v) ELSE CDrop
\* the guard's match on the result of catch_unwind
FinalMessage(result, flag) ==
  IF result.k = "Ok" THEN CReturn(result.v)
  ELSE IF flag THEN CDrop ELSE CPanic(result.v)
\* run_co_context: dispose_with
RoutineDispose ==
  /\ ~crashed /\ active = "routine" /\ rt.pc = "guard"
  /\ IF send_panics(rt.tx)
       THEN /\ crashed' = TRUE
            /\ h' = Failed(h, send_panic(rt.tx))
            /\ NoSwitch
            /\ UNCHANGED <<rt, mem>>
       ELSE /\ mem' = MemSent(rt.tx, FinalMessage(rt.result, rt.flag))
            /\ rt' = [rt EXCEPT !.pc = "disposed"]
            /\ h' = SentR([h EXCEPT !.nDispose = @ + 1,
                                    !.disposed = FinalMessage(rt.result, rt.flag)],
                           FinalMessage(rt.result, rt.flag))
            /\ Switch("invoker", NullWord)
            /\ UNCHANGED crashed
  /\ UNCHANGED <<cell, prog, gen, co>>

\* ------------------------------------------------------------- Coroutine
is_completed == co.state \in {"CompletedReturn", "CompletedUnwind"}
HasHandle == co.state \in {"Running", "CompletedReturn", "CompletedUnwind"}
InvokerIdle == ~crashed /\ active = "invoker" /\ co.pc = "idle" /\ HasHandle

ResumeArgs ==
  IF prog = "counter"
    THEN (IF h.nResume < CounterResumes THEN {CounterFirst + h.nResume} ELSE {})
  ELSE IF prog \in GenProgs
    THEN {UnitVal}
    ELSE (IF co.state = "Running" /\ h.nResume >= MaxResumes THEN {} ELSE Vals)

\* (altered) resume does not look at the state before sending
ResumeCallUnchecked ==
  /\ InvokerIdle
  /\ \E v \in ResumeArgs :
       IF send_panics(co.tx)
         THEN /\ co' = [co EXCEPT !.last = Outcome("Violation", send_panic(co.tx))]
              /\ h' = Failed(h, send_panic(co.tx))
              /\ NoSwitch
              /\ UNCHANGED mem
       ELSE /\ mem' = MemSent(co.tx, RYield(v))
            /\ co' = [co EXCEPT !.pc = "resume", !.arg = v, !.last = NoOutcome]
            /\ h' = SentI([h EXCEPT !.nResume = @ + 1], RYield(v))
            /\ Switch("routine", make_pointer(co.addr))
  /\ UNCHANGED <<cell, prog, gen, rt, crashed>>

\* Coroutine::resume, up to the switch of yield_with
CoResumeCall ==
  /\ InvokerIdle
  /\ \E v \in ResumeArgs :
       IF is_completed
         THEN /\ co' = [co EXCEPT !.last = Outcome("Violation", CompletedContext)]
              /\ NoSwitch
              /\ UNCHANGED <<mem, h>>
       ELSE IF send_panics(co.tx)
         THEN /\ co' = [co EXCEPT !.last = Outcome("Violation", send_panic(co.tx))]
              /\ h' = Failed(h, send_panic(co.tx))
              /\ NoSwitch
              /\ UNCHANGED mem
       ELSE /\ mem' = MemSent(co.tx, RYield(v))
            /\ co' = [co EXCEPT !.pc = "resume", !.arg = v, !.last = NoOutcome]
            /\ h' = SentI([h EXCEPT !.nResume = @ + 1], RYield(v))
            /\ Switch("routine", make_pointer(co.addr))
  /\ UNCHANGED <<cell, prog, rt, crashed>>
ResumeCall == CoResumeCall /\ UNCHANGED gen

\* (altered) Return leaves the state Running
ReceiveStateKeepsRunning(msg) ==
  IF msg.t \in {"Yield", "Return"} THEN "Running" ELSE "CompletedUnwind"
\* Coroutine::receive
ReceiveState(msg) ==
  IF msg.t = "Yield" THEN "Running"
  ELSE IF msg.t = "Return" THEN "CompletedReturn" ELSE "CompletedUnwind"
ReceiveStack(msg) == IF msg.t = "Yield" THEN "owned" ELSE "released"
ReceiveOutcome(msg) ==
  IF msg.t = "Yield" THEN Outcome("Yield", msg.v)
  ELSE IF msg.t = "Return" THEN Outcome("Return", msg.v)
  ELSE IF msg.t = "Panic" THEN Outcome("Raise", msg.v)
  ELSE Outcome("Violation", DroppedOutside)

\* Coroutine::resume once yield_with is resumed
CoResumeReturn ==
  /\ ~crashed /\ active = "invoker" /\ co.pc = "resume"
  /\ IF RebindPanics(co.tx, word)
       THEN /\ co' = [co EXCEPT !.pc = "idle", !.tx = None, !.ctx = Ctx(word),
                                !.last = Outcome("Violation", ForgetNonEmpty)]
            /\ h' = [Failed(h, ForgetNonEmpty) EXCEPT !.resumed = co'.last]
            /\ UNCHANGED mem
     ELSE IF receive_content_panics(co.addr)
       THEN /\ co' = [co EXCEPT !.pc = "idle", !.tx = Rebound(co.tx, word),
                                !.ctx = Ctx(word),
                                !.last = Outcome("Violation", NoContent)]
            /\ h' = [Failed(h, NoContent) EXCEPT !.resumed = co'.last]
            /\ UNCHANGED mem
     ELSE LET msg == mem[co.addr].m
          IN /\ mem' = [mem EXCEPT ![co.addr] = Empty]
             /\ co' = [co EXCEPT !.pc = "idle", !.tx = Rebound(co.tx, word),
                                 !.ctx = Ctx(word), !.state = ReceiveState(msg),
                                 !.stack = ReceiveStack(msg),
                                 !.last = ReceiveOutcome(msg)]
             /\ h' = GotI([h EXCEPT !.resumed = co'.last], msg)
  /\ NoSwitch
  /\ UNCHANGED <<cell, prog, rt, crashed>>
ResumeReturn == CoResumeReturn /\ UNCHANGED gen

\* (altered) Drop sends the Drop message whatever the state of the handle
DropCallAlwaysUnwinds ==
  /\ InvokerIdle
  /\ IF send_panics(co.tx)
       THEN /\ co' = [co EXCEPT !.state = "Dropped", !.stack = "released",
                                !.last = Outcome("Violation", send_panic(co.tx))]
            /\ h' = Failed(h, send_panic(co.tx))
            /\ NoSwitch
            /\ UNCHANGED mem
     ELSE /\ mem' = MemSent(co.tx, RDrop)
          /\ co' = [co EXCEPT !.pc = "drop", !.last = NoOutcome]
          /\ h' = SentI([h EXCEPT !.dropDepth = Len(rt.frames)], RDrop)
          /\ Switch("routine", make_pointer(co.addr))
  /\ UNCHANGED <<cell, prog, gen, rt, crashed>>
\* Drop for Coroutine, up to the switch of InvocationChannel::unwind
DropCall ==
  /\ InvokerIdle
  /\ IF is_completed
       THEN /\ co' = [co EXCEPT !.state = "Dropped", !.last = Outcome("Ok", 0)]
            /\ NoSwitch
            /\ UNCHANGED <<mem, h>>
     ELSE IF send_panics(co.tx)
       THEN /\ co' = [co EXCEPT !.state = "Dropped", !.stack = "released",
                                !.last = Outcome("Violation", send_panic(co.tx))]
            /\ h' = Failed(h, send_panic(co.tx))
            /\ NoSwitch
            /\ UNCHANGED mem
     ELSE /\ mem' = MemSent(co.tx, RDrop)
          /\ co' = [co EXCEPT !.pc = "drop", !.last = NoOutcome]
          /\ h' = SentI([h EXCEPT !.dropDepth = Len(rt.frames)], RDrop)
          /\ Switch("routine", make_pointer(co.addr))
  /\ UNCHANGED <<cell, prog, gen, rt, crashed>>

\* InvocationChannel::unwind: the match on the reply
UnwindAccepts(msg) == IsUnwind(msg)
\* Drop for Coroutine once yield_with is resumed; the fields are dropped after it
DropReturn ==
  /\ ~crashed /\ active = "invoker" /\ co.pc = "drop"
  /\ IF RebindPanics(co.tx, word)
       THEN /\ co' = [co EXCEPT !.pc = "idle", !.tx = None, !.ctx = Ctx(word),
                                !.state = "Dropped", !.stack = "released",
                                !.last = Outcome("Violation", ForgetNonEmpty)]
            /\ h' = Failed(h, ForgetNonEmpty)
            /\ UNCHANGED mem
     ELSE IF receive_content_panics(co.addr)
       THEN /\ co' = [co EXCEPT !.pc = "idle", !.tx = Rebound(co.tx, word),
                                !.ctx = Ctx(word),
                                !.state = "Dropped", !.stack = "released",
                                !.last = Outcome("Violation", NoContent)]
            /\ h' = Failed(h, NoContent)
            /\ UNCHANGED mem
     ELSE LET msg == mem[co.addr].m
          IN /\ mem' = [mem EXCEPT ![co.addr] = Empty]
             /\ co' = [co EXCEPT !.pc = "idle", !.tx = Rebound(co.tx, word),
                                 !.ctx = Ctx(word),
                                 !.state = "Dropped", !.stack = "released",
                                 !.last = IF UnwindAccepts(msg)
                                            THEN Outcome("Ok", 0)
                                            ELSE Outcome("Violation", InvalidUnwind)]
             /\ h' = GotI([h EXCEPT !.dropReply = msg], msg)
  /\ NoSwitch
  /\ UNCHANGED <<cell, prog, gen, rt, crashed>>

\* the owner moves the Running handle; its old storage keeps the stale bits or is reused
MoveHandle ==
  /\ InvokerIdle /\ prog = "free" /\ co.state = "Running"
  /\ \E a \in HandleAddrs \ {co.addr}, old \in {Empty, Junk} :
       /\ mem' = [mem EXCEPT ![a] = mem[co.addr], ![co.addr] = old]
       /\ co' = [co EXCEPT !.addr = a]
  /\ NoSwitch
  /\ UNCHANGED <<cell, prog, gen, rt, crashed, h>>

Next ==
  \/ Build
  \/ RoutineBoot
  \/ BuildFinish
  \/ ResumeCall
  \/ ResumeReturn
  \/ DropCall
  \/ DropReturn
  \/ MoveHandle
  \/ RoutineStart
  \/ RoutineWake
  \/ RoutineDispose
  \/ UserPush
  \/ UserPop
  \/ UserYield
  \/ UserReturn
  \/ UserPanic

Spec == Init /\ [][Next]_vars

\* ------------------------------------------ InvocationChannel::unwind alone
\* unwind applied to every reply of type SuspenseType the switch can hand back
SuspenseMsgs ==
  {SYield(y) : y \in Vals} \cup {CReturn(r) : r \in Vals}
    \cup {CPanic(p) : p \in Vals} \cup {CDrop}
InitUnwind ==
  /\ cell = NoCell
  /\ prog \in {"free", "counter"}
  /\ \E a \in HandleAddrs, t \in {R0, R1}, reply \in SuspenseMsgs :
       /\ co = [InitCo EXCEPT !.state = "Running", !.stack = "owned", !.pc = "drop",
                              !.addr = a, !.tx = t]
       /\ mem = [x \in Addrs |-> IF x = a THEN prepare_exchange(reply) ELSE Empty]
       /\ rt = [InitRt EXCEPT !.pc = IF IsComplete(reply) THEN "disposed" ELSE "suspended",
                              !.addr = t, !.closure = "routine"]
       /\ word = IF IsComplete(reply) THEN NullWord ELSE make_pointer(t)
  /\ active = "invoker"
  /\ nsw = 4
  /\ crashed = FALSE
  /\ \E n \in 0..MaxDepth :
       h = [InitH EXCEPT !.dropDepth = n, !.pendR = <<mem[co.addr].m>>,
                         !.nSentI = 1, !.nGotR = 1, !.nSentR = 1]
  /\ gen = InitGen
NextUnwind == DropReturn
SpecUnwind == InitUnwind /\ [][NextUnwind]_vars

\* ------------------------------------------------------- BoostedGenerator
\* Option<Yield> as returned by resume / next
GSome(v) == Outcome("Some", v)
GNone == Outcome("Exhausted", 0)
\* (altered) on Return the generator answers None but does not store the value
GenReceiveDropsReturn(g, out) ==
  IF out.k = "Yield"
    THEN [g EXCEPT !.pc = "idle", !.items = Append(@, out.v), !.last = GSome(out.v)]
  ELSE IF out.k = "Return"
    THEN [g EXCEPT !.pc = "idle", !.last = GNone]
    ELSE [g EXCEPT !.pc = "idle", !.last = out]
\* (altered) Return(r) is handed out as one more item before the state changes
GenReceiveYieldsReturn(g, out) ==
  IF out.k = "Yield"
    THEN [g EXCEPT !.pc = "idle", !.items = Append(@, out.v), !.last = GSome(out.v)]
  ELSE IF out.k = "Return"
    THEN [g EXCEPT !.pc = "idle", !.state = "COMPLETED", !.ret = out.v,
                   !.items = Append(@, out.v), !.last = GNone]
    ELSE [g EXCEPT !.pc = "idle", !.last = out]
\* BoostedGenerator::resume: match next
GenReceive(g, out) ==
  IF out.k = "Yield"
    THEN [g EXCEPT !.pc = "idle", !.items = Append(@, out.v), !.last = GSome(out.v)]
  ELSE IF out.k = "Return"
    THEN [g EXCEPT !.pc = "idle", !.state = "COMPLETED", !.ret = out.v, !.last = GNone]
    ELSE [g EXCEPT !.pc = "idle", !.last = out]
\* (altered) only a stored Return counts as completed
HasCompletedOnlyReturned == gen.state = "COMPLETED"
\* BoostedGenerator::has_completed
has_completed ==
  gen.state = "COMPLETED" \/ (gen.state = "RUNNING" /\ is_completed)
\* (altered) a completed generator always answers Ok with the buffered value
ResultFabricates ==
  IF has_completed THEN Outcome("Ok", gen.ret) ELSE Outcome("Violation", NotCompleted)
\* BoostedGenerator::result
result ==
  IF has_completed
    THEN (IF gen.state = "COMPLETED" THEN Outcome("Ok", gen.ret) ELSE Outcome("Err", 0))
    ELSE Outcome("Violation", NotCompleted)

\* BoostedGenerator::new_receiving: the coroutine is built and wrapped in RUNNING
GenNew == CoBuildFinish /\ gen' = [gen EXCEPT !.state = "RUNNING"]

\* BoostedGenerator::resume / Iterator::next, up to the switch
GenResumeCall ==
  /\ gen.pc = "idle" /\ gen.state # "none"
  /\ IF gen.state = "COMPLETED"
       THEN /\ InvokerIdle
            /\ gen' = [gen EXCEPT !.last = Outcome("Violation", InvalidGenerator)]
            /\ UNCHANGED <<cell, prog, co, rt, mem, active, word, nsw, crashed, h>>
       ELSE /\ CoResumeCall
            /\ gen' = IF co'.pc = "resume" THEN [gen EXCEPT !.pc = "resume", !.last = NoOutcome]
                                           ELSE [gen EXCEPT !.last = co'.last]

\* BoostedGenerator::resume once the coroutine's resume has returned
GenResumeReturn ==
  /\ gen.pc = "resume"
  /\ CoResumeReturn
  /\ gen' = GenReceive(gen, co'.last)

InitGenerator ==
  /\ cell = NoCell
  /\ prog = "gen"
  /\ co = InitCo
  /\ rt = InitRt
  /\ mem = [a \in Addrs |-> Empty]
  /\ active = "invoker"
  /\ word = NullWord
  /\ nsw = 0
  /\ crashed = FALSE
  /\ h = InitH
  /\ gen = InitGen
NextGen ==
  \/ Build
  \/ RoutineBoot
  \/ GenNew
  \/ GenResumeCall
  \/ GenResumeReturn
  \/ RoutineStart
  \/ RoutineWake
  \/ RoutineDispose
  \/ UserYield
  \/ UserReturn
SpecGen == InitGenerator /\ [][NextGen]_vars

\* ------------------------------------------------------- BoringGenerator
\* BoringGenerator::new: the coroutine is built and wrapped
BoringNew == CoBuildFinish /\ gen' = [gen EXCEPT !.state = "BORING"]
\* BoringGenerator::has_completed
boring_has_completed == is_completed
\* BoringGenerator::resume: match resumed
BoringReceive(g, out) ==
  IF out.k = "Yield"
    THEN [g EXCEPT !.pc = "idle", !.items = Append(@, out.v), !.last = GSome(out.v)]
  ELSE IF out.k = "Return"
    THEN [g EXCEPT !.pc = "idle", !.last = GNone]
    ELSE [g EXCEPT !.pc = "idle", !.last = out]
\* (altered) resume hands every call to the coroutine, completed or not
BoringResumeCallUnchecked ==
  /\ gen.pc = "idle" /\ gen.state = "BORING"
  /\ CoResumeCall
  /\ gen' = IF co'.pc = "resume" THEN [gen EXCEPT !.pc = "resume", !.last = NoOutcome]
                                 ELSE [gen EXCEPT !.last = co'.last]
\* BoringGenerator::resume / Iterator::next, up to the switch
BoringResumeCall ==
  /\ gen.pc = "idle" /\ gen.state = "BORING"
  /\ IF boring_has_completed
       THEN /\ InvokerIdle
            /\ gen' = [gen EXCEPT !.last = GNone]
            /\ UNCHANGED <<cell, prog, co, rt, mem, active, word, nsw, crashed, h>>
       ELSE /\ CoResumeCall
            /\ gen' = IF co'.pc = "resume" THEN [gen EXCEPT !.pc = "resume", !.last = NoOutcome]
                                           ELSE [gen EXCEPT !.last = co'.last]
\* BoringGenerator::resume once the coroutine's resume has returned
BoringResumeReturn ==
  /\ gen.pc = "resume" /\ gen.state = "BORING"
  /\ CoResumeReturn
  /\ gen' = BoringReceive(gen, co'.last)

\* new_with_return: gen_fn returns ret_yield and the wrapping closure yields it
MonoFnReturn ==
  /\ UserRuns /\ prog = "mono" /\ rt.wrap = "fn"
  /\ \E r \in Vals :
       IF send_panics(rt.tx)
         THEN /\ rt' = AfterRaise([rt EXCEPT !.wrap = "after"], send_panic(rt.tx))
              /\ h' = Failed(h, send_panic(rt.tx))
              /\ NoSwitch
              /\ UNCHANGED mem
         ELSE /\ mem' = MemSent(rt.tx, SYield(r))
              /\ rt' = [rt EXCEPT !.pc = "suspended", !.wrap = "after"]
              /\ h' = SentR([h EXCEPT !.nYield = @ + 1, !.lastYield = r,
                                      !.fnret = Outcome("Ok", r)], SYield(r))
              /\ Switch("invoker", make_pointer(rt.addr))
  /\ UNCHANGED <<cell, prog, gen, co, crashed>>

\* ------------------------------------------------------------ yield_from
\* the values the function of the inner generator can yield next
InnerYields(inner) == IF Len(inner.items) < MaxInner THEN Vals ELSE {}
\* what the inner generator's coroutine hands back to one resume(())
InnerMsgs(inner) ==
  {SYield(y) : y \in InnerYields(inner)} \cup {CReturn(r) : r \in Vals}
    \cup {CPanic(p) : p \in Vals}
\* (altered) the inner generator's value is not taken: a default is returned
InnerResultDefault(inner) == Outcome("Ok", UnitVal)
\* gen.result() on the inner generator
InnerResult(inner) ==
  IF inner.state = "COMPLETED" \/ inner.co \in {"CompletedReturn", "CompletedUnwind"}
    THEN (IF inner.state = "COMPLETED" THEN Outcome("Ok", inner.ret)
                                       ELSE Outcome("Err", UnitVal))
    ELSE Outcome("Violation", NotCompleted)
\* the function of the outer generator builds the inner one and calls yield_from
YieldFromStart ==
  /\ UserRuns /\ prog = "yf" /\ rt.inner.state = "none"
  /\ rt' = [rt EXCEPT !.inner = [NoInner EXCEPT !.state = "RUNNING", !.co = "Running",
                                                !.base = Len(h.ys)]]
  /\ NoSwitch
  /\ UNCHANGED <<cell, prog, gen, co, mem, crashed, h>>
\* yield_all(&mut gen): one gen.next(); Some(i) is passed to yield_val, None ends
\* the loop and gen.result().unwrap() is returned, a panic leaves the function
YieldFromStep ==
  /\ UserRuns /\ prog = "yf" /\ rt.inner.state = "RUNNING" /\ rt.inner.co = "Running"
  /\ \E msg \in InnerMsgs(rt.inner) :
       LET inner == [GenReceive(rt.inner, ReceiveOutcome(msg)) EXCEPT
                       !.co = ReceiveState(msg)]
           r == [rt EXCEPT !.inner = inner]
       IN IF inner.last.k = "Some"
            THEN IF send_panics(rt.tx)
                   THEN /\ rt' = AfterRaise(r, send_panic(rt.tx))
                        /\ h' = Failed(h, send_panic(rt.tx))
                        /\ NoSwitch
                        /\ UNCHANGED mem
                   ELSE /\ mem' = MemSent(rt.tx, SYield(inner.last.v))
                        /\ rt' = [r EXCEPT !.pc = "suspended"]
                        /\ h' = SentR([h EXCEPT !.nYield = @ + 1,
                                                !.lastYield = inner.last.v,
                                                !.ys = Append(@, inner.last.v)],
                                      SYield(inner.last.v))
                        /\ Switch("invoker", make_pointer(rt.addr))
          ELSE IF inner.last = GNone
            THEN /\ rt' = IF InnerResult(inner).k = "Ok"
                            THEN [r EXCEPT !.pc = "guard", !.frames = <<>>,
                                           !.result = Outcome("Ok", InnerResult(inner).v)]
                            ELSE AfterRaise(r, UnwrapErr)
                 /\ NoSwitch
                 /\ UNCHANGED <<mem, h>>
            ELSE /\ rt' = AfterRaise(r, inner.last.v)
                 /\ NoSwitch
                 /\ UNCHANGED <<mem, h>>
  /\ UNCHANGED <<cell, prog, gen, co, crashed>>

\* what the inner routine answers to ResumeType::Drop: its function unwinds, or
\* it catches the control panic and then returns or yields again
InnerDropReplies(inner) ==
  IF inner.items = <<>>
    THEN {FinalMessage(Outcome("Err", ControlPanic), TRUE)}
    ELSE {FinalMessage(Outcome("Err", ControlPanic), TRUE)}
           \cup {FinalMessage(Outcome("Ok", r), TRUE) : r \in Vals}
           \cup {SYield(y) : y \in Vals}
\* the raise unwinds the frame of yield_from: the inner generator is dropped, its
\* Coroutine runs unwind() with the inner routine; a panic of unwind() during
\* the unwinding cannot unwind
YieldFromUnwind ==
  /\ ~crashed /\ active = "routine" /\ rt.pc = "unwinding"
  /\ \E reply \in InnerDropReplies(rt.inner) :
       /\ rt' = [rt EXCEPT !.pc = IF UnwindAccepts(reply) THEN "guard" ELSE @,
                           !.inner = [@ EXCEPT !.co = "Dropped", !.reply = reply]]
       /\ crashed' = ~UnwindAccepts(reply)
  /\ NoSwitch
  /\ UNCHANGED <<cell, prog, gen, co, mem, h>>

\* ------------------------------------------ the generators and their drivers
\* the generator is dropped: Drop for the Coroutine it owns
GenDropCall == prog \in GenProgs /\ gen.pc = "idle" /\ DropCall
BoostedResumeCall == gen.state \in {"RUNNING", "COMPLETED"} /\ GenResumeCall
BoostedResumeReturn == gen.state \in {"RUNNING", "COMPLETED"} /\ GenResumeReturn
GenNewFor == IF prog \in {"boring", "mono"} THEN BoringNew ELSE GenNew
InitGenerators ==
  /\ cell = NoCell
  /\ prog \in GenProgs
  /\ co = InitCo
  /\ rt = InitRt
  /\ mem = [a \in Addrs |-> Empty]
  /\ active = "invoker"
  /\ word = NullWord
  /\ nsw = 0
  /\ crashed = FALSE
  /\ h = InitH
  /\ gen = InitGen
NextGenerators ==
  \/ Build
  \/ RoutineBoot
  \/ GenNewFor
  \/ BoostedResumeCall
  \/ BoostedResumeReturn
  \/ BoringResumeCall
  \/ BoringResumeReturn
  \/ RoutineStart
  \/ RoutineWake
  \/ RoutineDispose
  \/ UserYield
  \/ UserReturn
  \/ UserPanic
  \/ MonoFnReturn
  \/ YieldFromStart
  \/ YieldFromStep
SpecGenerators == InitGenerators /\ [][NextGenerators]_vars

\* the generators with an owner that may also drop them
NextGenDrop ==
  \/ Build
  \/ RoutineBoot
  \/ GenNewFor
  \/ BoostedResumeCall
  \/ BoostedResumeReturn
  \/ BoringResumeCall
  \/ BoringResumeReturn
  \/ RoutineStart
  \/ RoutineWake
  \/ RoutineDispose
  \/ UserYield
  \/ UserReturn
  \/ UserPanic
  \/ MonoFnReturn
  \/ YieldFromStart
  \/ YieldFromStep
  \/ YieldFromUnwind
  \/ GenDropCall
  \/ DropReturn
SpecGenDrop == InitGenerators /\ [][NextGenDrop]_vars

\* ------------------------------------ the transfer layer called on its own
\* one ExchangingTransfer (the fields tx, ctx and the receive_container at
\* co.addr) whose peer context (active = "routine") is a test body, and
\* containers at the addresses TAddrs
TAddrs == {ABoot, R0, HandleBase + 1}
TransferIdle == ~crashed /\ active = "invoker" /\ co.pc = "idle"

\* ValueExchangeContainer::prepare_exchange(v): a fresh container
TPrepareExchange ==
  /\ TransferIdle
  /\ \E a \in TAddrs \ {co.addr}, v \in Vals :
       /\ ~has_content(mem[a])
       /\ mem' = [mem EXCEPT ![a] = prepare_exchange(RYield(v))]
       /\ h' = [h EXCEPT !.op = Op("prepare_exchange", a, v)]
  /\ co' = [co EXCEPT !.last = Outcome("Ok", UnitVal)]
  /\ NoSwitch
  /\ UNCHANGED <<cell, prog, gen, rt, crashed>>

\* receive_content on a container, directly or through of_pointer(make_pointer())
TReceiveContent ==
  /\ TransferIdle
  /\ \E a \in TAddrs, via \in {"direct", "pointer"} :
       LET p == IF via = "pointer" THEN make_pointer(a) ELSE a
       IN IF receive_content_panics(p)
            THEN /\ co' = [co EXCEPT !.last = Outcome("Violation", NoContent)]
                 /\ h' = [h EXCEPT !.op = [Op("receive_content", a, 0) EXCEPT !.via = via]]
                 /\ UNCHANGED mem
            ELSE /\ co' = [co EXCEPT !.last = Outcome("Ok", of_pointer(p).m.v)]
                 /\ h' = [h EXCEPT !.op = [Op("receive_content", a, 0) EXCEPT !.via = via]]
                 /\ mem' = [mem EXCEPT ![p] = Empty]
  /\ NoSwitch
  /\ UNCHANGED <<cell, prog, gen, rt, crashed>>

\* ExchangeContainerRef::of_pointer(p).send_value(v)
TSendValue ==
  /\ TransferIdle
  /\ \E a \in TAddrs, v \in Vals :
       IF send_value_panics(make_pointer(a))
         THEN /\ co' = [co EXCEPT !.last = Outcome("Violation", WriteNonEmpty)]
              /\ h' = [h EXCEPT !.op = Op("send_value", a, v)]
              /\ UNCHANGED mem
         ELSE /\ co' = [co EXCEPT !.last = Outcome("Ok", UnitVal)]
              /\ h' = [h EXCEPT !.op = Op("send_value", a, v)]
              /\ mem' = MemSent(make_pointer(a), RYield(v))
  /\ NoSwitch
  /\ UNCHANGED <<cell, prog, gen, rt, crashed>>

\* ExchangingTransfer::yield_with(v), up to its switch
TYieldWith ==
  /\ TransferIdle /\ nsw < MaxSwitches
  /\ \E v \in Vals :
       IF send_panics(co.tx)
         THEN /\ co' = [co EXCEPT !.last = Outcome("Violation", send_panic(co.tx))]
              /\ h' = [h EXCEPT !.op = Op("yield_with", co.tx, v)]
              /\ NoSwitch
              /\ UNCHANGED mem
         ELSE /\ mem' = MemSent(co.tx, RYield(v))
              /\ co' = [co EXCEPT !.pc = "switched", !.last = NoOutcome]
              /\ h' = [h EXCEPT !.op = Op("yield_with", co.tx, v)]
              /\ Switch("routine", make_pointer(co.addr))
  /\ UNCHANGED <<cell, prog, gen, rt, crashed>>

\* ExchangingTransfer::dispose_with(v)
TDisposeWith ==
  /\ TransferIdle
  /\ \E v \in Vals :
       IF send_panics(co.tx)
         THEN /\ co' = [co EXCEPT !.last = Outcome("Violation", send_panic(co.tx))]
              /\ h' = [h EXCEPT !.op = Op("dispose_with", co.tx, v)]
              /\ NoSwitch
              /\ UNCHANGED mem
         ELSE /\ mem' = MemSent(co.tx, RYield(v))
              /\ co' = [co EXCEPT !.pc = "gone", !.last = NoOutcome]
              /\ h' = [h EXCEPT !.op = Op("dispose_with", co.tx, v)]
              /\ Switch("routine", NullWord)
  /\ UNCHANGED <<cell, prog, gen, rt, crashed>>

\* ExchangingTransfer::suspend(), up to its switch
TSuspend ==
  /\ TransferIdle /\ nsw < MaxSwitches
  /\ co' = [co EXCEPT !.pc = "switched", !.last = NoOutcome]
  /\ h' = [h EXCEPT !.op = Op("suspend", co.tx, 0)]
  /\ Switch("routine", make_pointer(co.addr))
  /\ UNCHANGED <<cell, prog, gen, rt, mem, crashed>>

\* the peer context: it may send a value to the published address, then
\* switches back with the address of its own slot or, disposing, with 0
TPeer ==
  /\ ~crashed /\ active = "routine" /\ co.pc \in {"switched", "gone"}
  /\ \E fill \in BOOLEAN, v \in Vals, w \in {NullWord, R0} :
       /\ mem' = IF fill /\ word # NullWord /\ ~send_value_panics(word) THEN MemSent(word, RYield(v)) ELSE mem
       /\ Switch("invoker", w)
  /\ UNCHANGED <<cell, prog, gen, co, rt, crashed, h>>

\* ExchangingTransfer::suspend once the switch has returned
TResumed ==
  /\ ~crashed /\ active = "invoker" /\ co.pc = "switched"
  /\ IF RebindPanics(co.tx, word)
       THEN /\ co' = [co EXCEPT !.pc = "idle", !.tx = None, !.ctx = Ctx(word),
                                !.last = Outcome("Violation", ForgetNonEmpty)]
            /\ UNCHANGED <<mem, h>>
     ELSE IF receive_content_panics(co.addr)
       THEN /\ co' = [co EXCEPT !.pc = "idle", !.tx = Rebound(co.tx, word),
                                !.ctx = Ctx(word),
                                !.last = Outcome("Violation", NoContent)]
            /\ UNCHANGED <<mem, h>>
     ELSE /\ co' = [co EXCEPT !.pc = "idle", !.tx = Rebound(co.tx, word),
                              !.ctx = Ctx(word),
                              !.last = Outcome("Ok", mem[co.addr].m.v)]
          /\ mem' = [mem EXCEPT ![co.addr] = Empty]
          /\ UNCHANGED h
  /\ NoSwitch
  /\ UNCHANGED <<cell, prog, gen, rt, crashed>>

\* (altered) dispose_with returns to its caller when it is switched into again
TResumedAfterDisposeReturns ==
  /\ ~crashed /\ active = "invoker" /\ co.pc = "gone"
  /\ co' = [co EXCEPT !.pc = "idle", !.ctx = Ctx(word), !.last = Outcome("Ok", UnitVal)]
  /\ NoSwitch
  /\ UNCHANGED <<cell, prog, gen, rt, mem, crashed, h>>
\* dispose_with when the disposed context is switched into again
TResumedAfterDispose ==
  /\ ~crashed /\ active = "invoker" /\ co.pc = "gone"
  /\ co' = [co EXCEPT !.pc = "dead", !.ctx = Ctx(word),
                      !.last = Outcome("Violation", ResumedAfterDispose)]
  /\ NoSwitch
  /\ UNCHANGED <<cell, prog, gen, rt, mem, crashed, h>>

\* create_without_send / create_receiving (tx = None) or create_with_send
InitTransfer ==
  /\ cell = NoCell
  /\ prog = "transfer"
  /\ \E t \in {None, create_with_send(R0)} :
       co = [InitCo EXCEPT !.state = "Running", !.stack = "owned", !.tx = t]
  /\ rt = InitRt
  /\ mem = [a \in Addrs |-> Empty]
  /\ active = "invoker"
  /\ word = NullWord
  /\ nsw = 0
  /\ crashed = FALSE
  /\ h = InitH
  /\ gen = InitGen
NextTransfer ==
  \/ TPrepareExchange
  \/ TReceiveContent
  \/ TSendValue
  \/ TYieldWith
  \/ TDisposeWith
  \/ TSuspend
  \/ TPeer
  \/ TResumed
  \/ TResumedAfterDispose
SpecTransfer == InitTransfer /\ [][NextTransfer]_vars

\* ----------------------------------------------- SelfUpdating on its own
CellVals == 0..MaxCell
\* the closures handed to update: total ones, and one that panics
CellFns == {"succ", "zero", "raise"}
CellApply(f, v) == IF f = "succ" THEN (v + 1) % (MaxCell + 1) ELSE 0
\* Option::take
CellTake(c) == [c EXCEPT !.opt = <<>>]
CellCalled(c, name) == [c EXCEPT !.op = name, !.pre = c.opt]

\* SelfUpdating::of(initial), From::from
CellOf ==
  /\ prog = "cell" /\ cell.moved
  /\ \E v \in CellVals :
       cell' = [opt |-> <<v>>, moved |-> FALSE, op |-> "of", pre |-> <<>>,
                last |-> Outcome("Ok", UnitVal)]
  /\ UNCHANGED <<prog, co, rt, mem, active, word, nsw, crashed, h, gen>>

\* SelfUpdating::update(op): self.0 = Some(op(self.0.take().unwrap()))
CellUpdate ==
  /\ prog = "cell" /\ ~cell.moved
  /\ \E f \in CellFns :
       LET c == CellCalled(cell, "update")
       IN IF c.opt = <<>>
            THEN cell' = [c EXCEPT !.last = Outcome("Violation", UnwrapNone)]
          ELSE IF f = "raise"
            THEN cell' = [CellTake(c) EXCEPT !.last = Outcome("Raise", 1)]
          ELSE cell' = [c EXCEPT !.opt = <<CellApply(f, c.opt[1])>>,
                                 !.last = Outcome("Ok", UnitVal)]
  /\ UNCHANGED <<prog, co, rt, mem, active, word, nsw, crashed, h, gen>>

\* Deref::deref
CellDeref ==
  /\ prog = "cell" /\ ~cell.moved
  /\ LET c == CellCalled(cell, "deref")
     IN cell' = IF c.opt = <<>>
                  THEN [c EXCEPT !.last = Outcome("Violation", UnwrapNone)]
                  ELSE [c EXCEPT !.last = Outcome("Ok", c.opt[1])]
  /\ UNCHANGED <<prog, co, rt, mem, active, word, nsw, crashed, h, gen>>

\* DerefMut::deref_mut followed by a write through the reference
CellDerefMut ==
  /\ prog = "cell" /\ ~cell.moved
  /\ \E v \in CellVals :
       LET c == CellCalled(cell, "deref_mut")
       IN cell' = IF c.opt = <<>>
                    THEN [c EXCEPT !.last = Outcome("Violation", UnwrapNone)]
                    ELSE [c EXCEPT !.opt = <<v>>, !.last = Outcome("Ok", UnitVal)]
  /\ UNCHANGED <<prog, co, rt, mem, active, word, nsw, crashed, h, gen>>

\* SelfUpdating::unwrap(self)
CellUnwrap ==
  /\ prog = "cell" /\ ~cell.moved
  /\ LET c == [CellCalled(cell, "unwrap") EXCEPT !.moved = TRUE]
     IN cell' = IF c.opt = <<>>
                  THEN [c EXCEPT !.last = Outcome("Violation", UnwrapNone)]
                  ELSE [CellTake(c) EXCEPT !.last = Outcome("Ok", c.opt[1])]
  /\ UNCHANGED <<prog, co, rt, mem, active, word, nsw, crashed, h, gen>>

InitCell ==
  /\ prog = "cell"
  /\ cell = NoCell
  /\ co = InitCo
  /\ rt = InitRt
  /\ mem = [a \in Addrs |-> Empty]
  /\ active = "invoker"
  /\ word = NullWord
  /\ nsw = 0
  /\ crashed = FALSE
  /\ h = InitH
  /\ gen = InitGen
NextCell ==
  \/ CellOf
  \/ CellUpdate
  \/ CellDeref
  \/ CellDerefMut
  \/ CellUnwrap
SpecCell == InitCell /\ [][NextCell]_vars

\* ================================================================ claims

\* C1: construction returns a Running handle whose routine is suspended inside
\* the initial suspend() of the bootstrap; the user function has not started,
\* and it starts only once a first resume has been sent.
C1_BuildStartsNoUserCode ==
  /\ (co.pc = "idle" /\ HasHandle /\ h.nResume = 0) =>
       (co.state = "Running" /\ rt.pc = "boot_suspended" /\ ~h.started
        /\ active = "invoker")
  /\ (h.started => h.nResume >= 1)
C1_Witness ==
  co.state = "Running" /\ co.pc = "idle" /\ h.nResume = 0 /\ rt.pc = "boot_suspended"

\* C2: values are routed one-to-one: the k-th value the user function receives
\* (its initial argument, then the returns of suspend) is the value of the k-th
\* resume; a resume that returns Yield(y) returns the y of the suspend with the
\* same index; a resume returns Yield or Return only after its value was
\* received.  The receiving counter driven with 5..10 gives Yield(Less) five
\* times and then Return(5).
C2_ValuesRoutedOneToOne ==
  /\ h.nRecv <= h.nResume
  /\ (h.nRecv = h.nResume /\ h.nResume >= 1) => rt.recv = co.arg
  /\ (co.pc = "idle" /\ co.last.k = "Yield") =>
       (co.last.v = h.lastYield /\ h.nYield = h.nResume)
  /\ (co.pc = "idle" /\ h.resumed.k \in {"Yield", "Return"}) => h.nRecv = h.nResume
  /\ (prog = "counter" /\ co.pc = "idle" /\ h.nResume >= 1) =>
       /\ (h.nResume < CounterResumes => h.resumed = Outcome("Yield", Less))
       /\ (h.nResume = CounterResumes => h.resumed = Outcome("Return", 5))
C2_Witness ==
  prog = "counter" /\ h.nResume = CounterResumes /\ h.resumed = Outcome("Return", 5)

\* C3 (as claimed): after a resume that returned Yield the handle is Running and
\* owns the stack, and a following resume raises no panic in the transfer layer.
C3_ResumeAfterYieldWellDefined ==
  /\ (co.pc = "idle" /\ co.last.k = "Yield") =>
       (co.state = "Running" /\ ~is_completed /\ co.stack = "owned")
  /\ (h.dropDepth = -1 /\ h.nResume >= 2) => h.fail = 0

\* C4: when the user function returned r during a resume, that resume returned
\* Return(r), the handle is Completed(Return) from then on and the stack is
\* released.
C4_ReturnCompletes ==
  (rt.result.k = "Ok" /\ h.dropDepth = -1 /\ co.pc = "idle") =>
    /\ h.resumed = Outcome("Return", rt.result.v)
    /\ co.state \in {"CompletedReturn", "Dropped"}
    /\ (HasHandle => is_completed)
    /\ co.stack = "released"
C4_Witness ==
  co.state = "CompletedReturn" /\ h.resumed.k = "Return" /\ prog = "free"

\* C5: when a panic with payload p escaped the user function during a resume,
\* that resume re-raised p, the handle is Completed(Unwind) and the stack is
\* released when the raise is observed.
C5_PanicReraised ==
  (rt.result.k = "Err" /\ h.dropDepth = -1 /\ co.pc = "idle") =>
    /\ h.resumed = Outcome("Raise", rt.result.v)
    /\ co.state \in {"CompletedUnwind", "Dropped"}
    /\ (HasHandle => is_completed)
    /\ co.stack = "released"
C5_Witness ==
  co.state = "CompletedUnwind" /\ h.resumed.k = "Raise" /\ h.resumed.v \in Vals

\* C6: on a completed handle every step is either its destruction or a resume
\* that fails with "tried to send to completed context", switches no stack and
\* leaves the state as it is.
C6_ResumeAfterCompletionRefused ==
  [][(is_completed /\ co.pc = "idle") =>
       \/ /\ co'.state = "Dropped"
          /\ UNCHANGED <<rt, mem, active, word, nsw, crashed>>
       \/ /\ co' = [co EXCEPT !.last = Outcome("Violation", CompletedContext)]
          /\ UNCHANGED <<rt, mem, active, word, nsw, crashed, h>>]_vars
C6_Witness ==
  is_completed /\ co.last = Outcome("Violation", CompletedContext)

\* C7 (as claimed): when a handle dropped while Running has released the stack,
\* no resource that was live on the routine's stack at the suspension point is
\* still undestroyed.
C7_DropDestroysLocals ==
  (co.stack = "released" /\ h.dropDepth >= 0) =>
    \A i \in 1..h.dropDepth : rt.frames[i] # "res"

\* C8 (as claimed): the drop of a Running handle ends with the invoker accepting
\* the reply silently, from every suspension point.
C8_DropSilent ==
  (co.state = "Dropped" /\ h.dropDepth >= 0) => co.last = Outcome("Ok", 0)

\* C9 (as claimed): once Drop is sent, control is back on the invoker only after
\* the routine has reached dispose_with.
C9_DropReachesDispose ==
  (co.pc = "drop" /\ active = "invoker") => rt.pc = "disposed"

\* C10 (as claimed): at most one final message is sent; once the user function
\* has returned, has panicked or has been interrupted by the drop control panic
\* and control is back on the invoker, exactly one dispose_with has been
\* executed, its message is a Complete of the matching kind, and no frame of
\* the user function is left on the routine's stack.
C10_OneDisposeStackUnwound ==
  /\ h.nDispose <= 1
  /\ (rt.pc = "disposed") <=> (h.nDispose = 1)
  /\ (active = "invoker" /\ (rt.result.k # "None" \/ rt.flag)) =>
       /\ rt.pc = "disposed"
       /\ IsComplete(h.disposed)
       /\ (rt.result.k = "Ok") <=> (h.disposed = CReturn(rt.result.v))
       /\ (rt.result.k = "Err") <=> IsUnwind(h.disposed)
       /\ rt.frames = <<>>

\* C11 (as claimed): once Drop has been delivered to the routine, no user code
\* runs on: the control signal is at the guard of run_co_context or the routine
\* has disposed; the user function neither continues, yields again nor returns.
C11_DropSignalUncatchable ==
  rt.flag => (rt.pc \in {"guard", "disposed"} /\ rt.result.k = "Err" /\ ~h.intercepted)

C13_RoutineResourcesReleased ==
  (co.stack = "released") =>
    /\ \A i \in DOMAIN rt.frames : rt.frames[i] # "res"
    /\ rt.closure \notin {"bootslot", "routine"}

\* C14: in both directions of the connected pair no value is lost, duplicated
\* or reordered: every receive takes the oldest value sent and not yet received,
\* and the values sent and not yet received are exactly the one waiting in the
\* receiver's slot, if any (so: sent = received, then at most the slot's value).
C14_SentEqualsReceived ==
  /\ h.inOrder
  /\ h.pendI = Slot(rt.addr)
  /\ h.pendR = Slot(co.addr)
  /\ h.nSentI = h.nGotR + Len(h.pendI)
  /\ h.nSentR = h.nGotI + Len(h.pendR)
C14_Witness ==
  h.nGotR >= 2 /\ h.nGotI >= 2 /\ Slot(rt.addr) # <<>>

\* C15: sends and receives alternate strictly, in the order invoker send,
\* routine receive, routine send, invoker receive: the four counts never leave
\* that cycle, so no side sends twice without having received in between.
C15_StrictAlternation ==
  /\ h.nGotI <= h.nSentR
  /\ h.nSentR <= h.nGotR
  /\ h.nGotR <= h.nSentI
  /\ h.nSentI <= h.nGotI + 1
C15_Witness ==
  h.nSentI = 3 /\ h.nGotR = 3 /\ h.nSentR = 3 /\ h.nGotI = 2

\* C16 (as claimed): exactly one side executes and the other is parked at one
\* of the listed points: the invoker inside resume or inside the destruction of
\* the handle, the routine inside suspend / yield_with or after dispose_with.
C16_OneSideExecutes ==
  /\ active \in {"invoker", "routine"}
  /\ (active = "routine") => co.pc \in {"resume", "drop"}
  /\ (active = "invoker") =>
       rt.pc \in {"unstarted", "boot_suspended", "suspended", "disposed"}
\* C16 (amended): exactly one side executes and the other is parked at a switch
\* point; the invoker's switch points are build, resume and the destruction of
\* the handle, the routine's are suspend / yield_with and dispose_with.
C16_OneSideExecutesOrBuilds ==
  /\ active \in {"invoker", "routine"}
  /\ (active = "routine") => co.pc \in {"build", "resume", "drop"}
  /\ (active = "invoker") =>
       rt.pc \in {"unstarted", "boot_suspended", "suspended", "disposed"}
C16_Witness ==
  active = "routine" /\ co.pc = "build" /\ rt.pc = "entry"

C18_AfterYieldWith ==
  /\ (co.pc = "idle" /\ HasHandle /\ co.last.k \in {"Yield", "Return", "Raise"}) =>
       /\ mem[co.addr] = Empty
       /\ co.tx # None /\ co.tx = make_pointer(rt.addr)
       /\ co.ctx.id = nsw
  /\ (active = "routine" /\ rt.pc = "user" /\ h.nYield >= 1 /\ h.fail = 0) =>
       /\ mem[rt.addr] = Empty
       /\ rt.tx # None /\ rt.tx = make_pointer(co.addr)
       /\ rt.ctx.id = nsw
\* C18 (amended): as claimed when the peer suspended; when the peer disposed
\* (the invoker's yield_with during which the routine completed) the caller's
\* tx is None.
C18_AfterYieldWithOrDispose ==
  /\ (co.pc = "idle" /\ HasHandle /\ co.last.k = "Yield") =>
       /\ mem[co.addr] = Empty
       /\ co.tx # None /\ co.tx = make_pointer(rt.addr)
       /\ co.ctx.id = nsw
  /\ (co.pc = "idle" /\ HasHandle /\ co.last.k \in {"Return", "Raise"}) =>
       /\ mem[co.addr] = Empty
       /\ co.tx = None
       /\ co.ctx.id = nsw
  /\ (active = "routine" /\ rt.pc = "user" /\ h.nYield >= 1 /\ h.fail = 0) =>
       /\ mem[rt.addr] = Empty
       /\ rt.tx # None /\ rt.tx = make_pointer(co.addr)
       /\ rt.ctx.id = nsw
C18_Witness ==
  co.pc = "idle" /\ HasHandle /\ co.last.k = "Return" /\ co.tx = None /\ h.nYield >= 1

\* C19 (as claimed): a peer slot address is dereferenced only while its
\* publisher is suspended in the switch that carried it.  The side that a switch
\* has just woken next runs receive_ref, which reads the slot its send_ref holds:
\* that address is the one the switch carried, not one published earlier.
C19_NoStaleDereference ==
  /\ (active = "routine" /\ rt.pc = "suspended" /\ rt.tx # None /\ word # NullWord) =>
       rt.tx = word
  /\ (active = "invoker" /\ co.pc \in {"resume", "drop"} /\ co.tx # None
        /\ word # NullWord) =>
       co.tx = word

\* C20: a generator whose function yields y1..yn and returns r hands out, resume
\* by resume, exactly y1..yn in order; the resume that answers None comes when
\* the function has returned, and from then on has_completed() is true and
\* result() is Ok(r); with n = 0 it is the first resume that answers None.
C20_GeneratorIteration ==
  /\ (gen.pc = "idle" /\ gen.last.k \in {"Some", "Exhausted"}) => gen.items = h.ys
  /\ (gen.last.k = "Some") => (gen.last.v = h.lastYield /\ rt.pc = "suspended")
  /\ (gen.last.k = "Exhausted" \/ gen.state = "COMPLETED") =>
       /\ rt.result.k = "Ok"
       /\ gen.items = h.ys
       /\ has_completed
       /\ result = Outcome("Ok", rt.result.v)
  /\ (gen.last.k = "Exhausted" /\ h.ys = <<>>) => h.nResume = 1
C20_Witness ==
  /\ gen.last = GNone /\ Len(gen.items) = MaxYields /\ gen.items[1] # gen.items[2]
  /\ result = Outcome("Ok", 2)

\* C21 (as claimed): for every generator constructor, new_with_return included,
\* the items the invoker receives are among the values the generator function
\* itself yielded, in order; the value the function returns is not one of them.
C21_ReturnNotYielded ==
  /\ Len(gen.items) <= Len(h.ys)
  /\ gen.items = SubSeq(h.ys, 1, Len(gen.items))
\* C21 (amended): that holds for BoostedGenerator::new and BoringGenerator::new;
\* a generator made by new_with_return hands out the function's own yields and
\* then, once, the value the function returned, as its last item.
C21_ReturnYieldedOnlyByNewWithReturn ==
  /\ prog # "mono" => C21_ReturnNotYielded
  /\ (prog = "mono" /\ h.fnret.k # "Ok") => C21_ReturnNotYielded
  /\ (prog = "mono" /\ h.fnret.k = "Ok") =>
       /\ Len(gen.items) <= Len(h.ys) + 1
       /\ gen.items = SubSeq(h.ys \o <<h.fnret.v>>, 1, Len(gen.items))
       /\ (gen.last = GNone => gen.items = h.ys \o <<h.fnret.v>>)
C21_Witness ==
  prog = "gen" /\ gen.state = "COMPLETED" /\ gen.ret = 1 /\ gen.items = <<2>>

\* C22: yield_from(inner) forwards every value the inner generator yields, in
\* order and with one suspension of the outer generator per value, to the outer
\* generator's invoker; it ends only when the inner has completed and then
\* returns the inner's Return value; an inner that yields nothing adds nothing
\* to the outer stream.
C22_YieldFromForwards ==
  (prog = "yf" /\ rt.inner.state # "none") =>
    /\ h.ys = SubSeq(h.ys, 1, rt.inner.base) \o rt.inner.items
    /\ h.nYield = rt.inner.base + Len(rt.inner.items)
    /\ Len(gen.items) <= Len(h.ys) /\ Len(h.ys) <= Len(gen.items) + 1
    /\ gen.items = SubSeq(h.ys, 1, Len(gen.items))
    /\ (rt.pc = "suspended" => rt.inner.state = "RUNNING")
    /\ (rt.result.k = "Ok" =>
          rt.inner.state = "COMPLETED" /\ rt.result.v = rt.inner.ret)
    /\ (gen.state = "COMPLETED" =>
          gen.ret = rt.inner.ret /\ gen.items = h.ys /\ gen.last \in {GNone,
            Outcome("Violation", InvalidGenerator)})
C22_Witness ==
  /\ prog = "yf" /\ rt.inner.state = "COMPLETED" /\ rt.inner.items = <<2, 1>>
  /\ rt.inner.base = 1 /\ gen.state = "COMPLETED" /\ gen.items = <<1, 2, 1>>
  /\ gen.ret = 2

C24_ResultOnlyAfterReturn ==
  (prog \in {"gen", "yf"} /\ gen.state # "none" /\ gen.pc = "idle") =>
    /\ result.k = "Ok" =>
         (rt.pc = "disposed" /\ rt.result.k = "Ok" /\ result.v = rt.result.v)
    /\ rt.pc # "disposed" => result = Outcome("Violation", NotCompleted)
    /\ (rt.pc = "disposed" /\ rt.result.k = "Ok") => result = Outcome("Ok", rt.result.v)
    /\ (rt.pc = "disposed" /\ rt.result.k = "Err") => result = Outcome("Err", UnitVal)
C24_Witness ==
  /\ prog = "gen" /\ gen.pc = "idle" /\ gen.items = <<1>>
  /\ rt.pc = "disposed" /\ rt.result = Outcome("Err", 2)
  /\ result = Outcome("Err", UnitVal)

\* C25 (as claimed): for every generator, has_completed() is true if and only if
\* an earlier resume returned None: it is true whenever the last resume returned
\* None, it stays true, and it becomes true only in a step in which resume
\* returns None.
C25_CompletedIffResumeReturnedNone ==
  /\ [](gen.last = GNone =>
          IF gen.state = "BORING" THEN boring_has_completed ELSE has_completed)
  /\ [][(IF gen.state = "BORING" THEN boring_has_completed ELSE has_completed) =>
          (IF gen.state = "BORING" THEN boring_has_completed ELSE has_completed)']_vars
  /\ [][((IF gen.state = "BORING" THEN boring_has_completed ELSE has_completed)'
          /\ ~(IF gen.state = "BORING" THEN boring_has_completed ELSE has_completed))
            => gen'.last = GNone]_vars

\* C26: prepare_exchange(v) gives a container that has content; receive_content
\* on a container holding v returns v and leaves the container Empty, also when
\* the container is reached through of_pointer(make_pointer()).
C26_PrepareThenReceive ==
  /\ h.op.name = "prepare_exchange" =>
       (has_content(mem[h.op.a]) /\ mem[h.op.a].m = RYield(h.op.v))
  /\ (h.op.name = "receive_content" /\ has_content(h.op.pre)) =>
       /\ co.last = Outcome("Ok", h.op.pre.m.v)
       /\ ~has_content(mem[h.op.a])
C26_Witness ==
  /\ h.op.name = "receive_content" /\ h.op.via = "pointer" /\ h.op.a = R0
  /\ h.op.pre = prepare_exchange(RYield(2)) /\ co.last = Outcome("Ok", 2)
  /\ mem[R0] = Empty /\ has_content(mem[ABoot])

\* C27: receive_content on an Empty container panics (No content to receive)
\* and leaves the container Empty; a second receive_content on the same
\* container, with nothing sent in between, fails: a value is moved out once.
C27_ReceiveEmptyFails ==
  /\ []((h.op.name = "receive_content" /\ ~has_content(h.op.pre)) =>
          (co.last = Outcome("Violation", NoContent) /\ mem[h.op.a] = Empty))
  /\ [][(h.op.name = "receive_content" /\ h'.op.name = "receive_content"
         /\ h'.op.a = h.op.a /\ co.pc = "idle" /\ co'.pc = "idle") =>
          co'.last = Outcome("Violation", NoContent)]_vars
C27_Witness ==
  /\ h.op.name = "receive_content" /\ h.op.pre = Empty /\ h.op.a = ABoot
  /\ co.last = Outcome("Violation", NoContent) /\ mem[ABoot] = Empty
  /\ has_content(mem[R0])

\* C28: send_value(v) through a reference writes Value(v) when the target is
\* Empty; when the target is Full it panics (tried to write to non-empty
\* container) and the value in the target is left as it was.
C28_SendValueOnlyIntoEmpty ==
  h.op.name = "send_value" =>
    IF has_content(h.op.pre)
      THEN co.last = Outcome("Violation", WriteNonEmpty) /\ mem[h.op.a] = h.op.pre
      ELSE co.last = Outcome("Ok", UnitVal)
           /\ mem[h.op.a] = prepare_exchange(RYield(h.op.v))
C28_Witness ==
  /\ h.op.name = "send_value" /\ h.op.a = R0 /\ h.op.v = 1
  /\ h.op.pre = prepare_exchange(RYield(2)) /\ mem[R0] = h.op.pre
  /\ co.last = Outcome("Violation", WriteNonEmpty)

\* C30: yield_with(v) and dispose_with(v) on a transfer whose send_ref is None
\* (created without send and not resumed yet, or resumed with 0 by a disposing
\* peer) panic (invalid exchange state for sending) before any stack switch and
\* leave receive_container, send_ref and the context as they were; suspend()
\* on a transfer created without send performs its switch.
C30_SendWithoutRefFails ==
  /\ (h.op.name \in {"yield_with", "dispose_with"} /\ h.op.tx = None) =>
       /\ co.last = Outcome("Violation", InvalidExchange)
       /\ nsw = h.op.nsw /\ active = "invoker" /\ co.pc = "idle"
       /\ co.tx = None /\ co.ctx = h.op.ctx /\ mem[co.addr] = h.op.rx
  /\ (h.op.name = "suspend" /\ h.op.tx = None) =>
       (nsw > h.op.nsw /\ (co.pc = "switched" => co.last = NoOutcome))
C30_Witness ==
  /\ h.op.name = "dispose_with" /\ h.op.tx = None /\ h.op.nsw = 2
  /\ co.last = Outcome("Violation", InvalidExchange) /\ nsw = 2 /\ co.tx = None
  /\ word = NullWord

C31_DisposeNeverReturns ==
  /\ (h.op.name = "dispose_with" /\ h.op.tx # None /\ ~has_content(h.op.pre)) =>
       /\ co.pc \in {"gone", "dead"}
       /\ (co.pc = "gone" /\ active = "routine") =>
            (word = NullWord /\ mem[h.op.a] = prepare_exchange(RYield(h.op.v)))
       /\ co.last = IF co.pc = "dead" THEN Outcome("Violation", ResumedAfterDispose)
                                      ELSE NoOutcome
  /\ co.pc = "dead" => (h.op.name = "dispose_with" /\ active = "invoker")
C31_Witness ==
  /\ h.op.name = "dispose_with" /\ h.op.v = 2 /\ co.pc = "dead"
  /\ co.last = Outcome("Violation", ResumedAfterDispose) /\ mem[R0].m = RYield(2)

\* C32: a SelfUpdating cell is never observable emptied: update installs the
\* closure's result before anything can read the cell, and when the closure
\* raises the process terminates, so that no deref, unwrap or update finds
\* the cell empty.
C32_CellNeverObservedEmpty ==
  /\ (~cell.moved /\ cell.opt = <<>>) => crashed
  /\ cell.last # Outcome("Violation", UnwrapNone)

\* C33: after every switch that returns into suspend() or yield_with, tx is
\* set from the incoming word alone: a reference to the address in the word
\* when it is not 0, whatever tx was before, and None when the word is 0.
C33_TxFromIncomingWord ==
  [][/\ (active = "routine" /\ rt.pc \in {"boot_suspended", "suspended"} /\ rt' # rt) =>
          rt'.tx = IF word = NullWord THEN None ELSE word
     /\ (active = "invoker" /\ co.pc \in {"build", "resume", "drop"} /\ co' # co) =>
          co'.tx = IF word = NullWord THEN None ELSE word]_vars

\* C34: the final message of the routine is Complete(Unwind(Drop)) exactly
\* when the routine has received ResumeType::Drop; a raise that escapes with
\* the drop flag unset is sent as Unwind(Panic(payload)); Coroutine::resume
\* never receives Unwind(Drop), so it never fails with "dropped outside".
C34_DropReplyIffDropReceived ==
  /\ rt.pc = "disposed" =>
       /\ (h.disposed = CDrop) <=> rt.flag
       /\ (rt.result.k = "Err" /\ ~rt.flag) => h.disposed = CPanic(rt.result.v)
  /\ co.last # Outcome("Violation", DroppedOutside)
  /\ h.resumed # Outcome("Violation", DroppedOutside)

\* C35: a coroutine dropped before its first resume never invokes the user
\* function: the bootstrap takes the Drop message as its initial value, the
\* control panic is raised inside the guard before the call of the function,
\* and the routine replies Complete(Unwind(Drop)).
C35_DropBeforeFirstResume ==
  (h.nResume = 0 /\ (co.pc = "drop" \/ co.state = "Dropped")) =>
    /\ ~h.started /\ h.nRecv = 0 /\ h.nYield = 0
    /\ rt.pc \in {"boot_suspended", "guard", "disposed"}
    /\ rt.pc \in {"guard", "disposed"} =>
         (rt.flag /\ rt.result = Outcome("Err", ControlPanic))
    /\ rt.pc = "disposed" => (h.disposed = CDrop /\ h.nDispose = 1)
    /\ co.state = "Dropped" =>
         (co.last = Outcome("Ok", 0) /\ h.dropReply = CDrop /\ rt.pc = "disposed")
C35_Witness ==
  /\ h.nResume = 0 /\ co.state = "Dropped" /\ co.stack = "released"
  /\ h.dropReply = CDrop /\ rt.pc = "disposed" /\ ~h.started

\* C36: when the outer generator is dropped while it is suspended inside
\* yield_from with a Running inner generator, the unwinding of the outer
\* routine drops the inner handle, the inner routine disposes with Unwind(Drop)
\* before the outer routine does, and the drop of the outer handle completes
\* without raising.
C36_NestedDrop ==
  (prog = "yf" /\ (co.pc = "drop" \/ co.state = "Dropped")
     /\ rt.inner.co \in {"Running", "Dropped"}) =>
    /\ ~crashed
    /\ rt.pc \in {"guard", "disposed"} =>
         (rt.inner.co = "Dropped" /\ rt.inner.reply = CDrop)
    /\ co.state = "Dropped" =>
         (co.last = Outcome("Ok", 0) /\ h.dropReply = CDrop
            /\ rt.inner.co = "Dropped" /\ rt.inner.reply = CDrop)

\* C37: no operation of the public API switches into a routine that has
\* disposed: once the routine has executed dispose_with the handle becomes
\* Completed, resume on it refuses before sending anything, and dropping a
\* Completed handle performs no switch and raises nothing.
C37_NoSwitchIntoDisposed ==
  /\ [](rt.pc = "disposed" =>
          /\ active = "invoker" /\ ~crashed
          /\ co.pc = "idle" => (is_completed \/ co.state = "Dropped"))
  /\ [][/\ (rt.pc = "disposed" /\ co.pc = "idle") =>
             (nsw' = nsw /\ mem' = mem /\ active' = "invoker" /\ rt' = rt)
        /\ (is_completed /\ co.pc = "idle" /\ co'.state = "Dropped") =>
             (co'.last = Outcome("Ok", 0) /\ co'.pc = "idle")
        /\ (is_completed /\ co.pc = "idle" /\ co' # co /\ co'.state = co.state) =>
             co'.last = Outcome("Violation", CompletedContext)]_vars
C37_Witness ==
  /\ rt.pc = "disposed" /\ co.state = "Dropped" /\ h.dropDepth = -1
  /\ h.resumed = Outcome("Return", 1) /\ co.last = Outcome("Ok", 0) /\ nsw = 4

\* C38: the stack is released only after the routine has executed
\* dispose_with: in every state in which the routine is suspended at a yield
\* or at the initial suspend of the bootstrap, the handle of the invoker is
\* Running and still owns the stack.
C38_StackOwnedWhileSuspended ==
  (rt.pc \in {"boot_suspended", "suspended"} /\ co.pc # "build") =>
    (co.state = "Running" /\ co.stack = "owned")

\* C39: in an execution driven through the public API only, in which the user
\* code does not intercept the control panic, no protocol failure of the
\* transfer layer occurs: every send_value finds its target Empty, every
\* receive_ref finds the slot referenced so far Empty, every send finds a
\* send_ref, and every receive_content after a switch finds its slot Full.
C39_NoProtocolFailure ==
  ~h.intercepted =>
    /\ h.fail = 0
    /\ co.last.k = "Violation" => co.last.v \in {CompletedContext, InvalidUnwind}

\* C40: resume (and next) of a completed BoringGenerator returns None without a
\* switch into the routine, however often it is called; resume of a
\* BoostedGenerator that has returned None panics (invalid generator state).
C40_ResumeAfterCompletion ==
  [][/\ (gen.state = "BORING" /\ gen.pc = "idle" /\ boring_has_completed /\ gen' # gen) =>
          /\ gen'.last = GNone /\ gen'.pc = "idle" /\ gen'.state = "BORING"
          /\ nsw' = nsw /\ mem' = mem /\ co' = co /\ rt' = rt /\ active' = active
     /\ ~(gen.state = "BORING" /\ gen.pc = "idle" /\ gen.last.k = "Violation")
     /\ (gen.state = "COMPLETED" /\ gen.pc = "idle" /\ gen' # gen) =>
          /\ gen'.last = Outcome("Violation", InvalidGenerator)
          /\ gen'.state = "COMPLETED" /\ nsw' = nsw /\ mem' = mem /\ co' = co]_vars
C40_Witness ==
  /\ gen.state = "BORING" /\ gen.pc = "idle" /\ boring_has_completed
  /\ gen.last = GNone /\ h.resumed = Outcome("Raise", 1) /\ gen.items = <<2>>

====
